---- MODULE Spec2Model ----
(***************************************************************************)
(* Model of DCF2.py, a Streamlit script that values a company either by a  *)
(* discounted-cash-flow projection (calculate_wacc, calculate_dcf) or by a *)
(* price-to-sales multiple (calculate_ps_valuation).                       *)
(*                                                                         *)
(* Numbers.  Python floats are modelled as exact rationals <<n, d>> in     *)
(* lowest terms with d > 0; floating-point rounding is not modelled.  A    *)
(* float division by zero raises ZeroDivisionError in Python, so            *)
(* operations that can raise return a record [exc, val].                   *)
(*                                                                         *)
(* Units.  Money is held in billions of dollars: the script divides the    *)
(* market-data figures by 1000000000 for the widgets (lines 117, 122, 123) *)
(* and multiplies the entered values back (lines 126-128); the model       *)
(* carries the widget unit through.                                        *)
(***************************************************************************)
EXTENDS Integers, Sequences, FiniteSets, TLC

VARIABLES info, pc, path, calls, widget, inp, wacc, out, exc, w, dcf

vars == <<info, pc, path, calls, widget, inp, wacc, out, exc, w, dcf>>

runVars == <<info, pc, path, calls, widget, inp, wacc, out, exc>>

-----------------------------------------------------------------------------
(* Bounds of the model *)

\* the largest horizon (num_years) a run or a call is given
MaxYears == 2

-----------------------------------------------------------------------------
(* Float arithmetic, as exact rationals *)

Abs(x) == IF x < 0 THEN -x ELSE x

RECURSIVE GCD(_, _)
GCD(a, b) == IF b = 0 THEN a ELSE GCD(b, a % b)

Rat(n, d) ==
    LET g == GCD(Abs(n), Abs(d))
        s == IF d < 0 THEN -1 ELSE 1
    IN  <<(s * n) \div g, (s * d) \div g>>

Zero == Rat(0, 1)

One == Rat(1, 1)

RAdd(x, y) ==
    LET g == GCD(x[2], y[2])
    IN  Rat(x[1] * (y[2] \div g) + y[1] * (x[2] \div g), (x[2] \div g) * y[2])

RNeg(x) == <<-x[1], x[2]>>

RSub(x, y) == RAdd(x, RNeg(y))

RMul(x, y) ==
    LET g1 == GCD(Abs(x[1]), y[2])
        g2 == GCD(Abs(y[1]), x[2])
    IN  <<(x[1] \div g1) * (y[1] \div g2), (x[2] \div g2) * (y[2] \div g1)>>

\* x / y for y # 0 (the callers test for zero first, as Python raises there)
RDiv(x, y) == RMul(x, Rat(y[2], y[1]))

RLt(x, y) == x[1] * y[2] < y[1] * x[2]

RLe(x, y) == x[1] * y[2] <= y[1] * x[2]

RMax(x, y) == IF RLt(x, y) THEN y ELSE x

\* x ** k for an integer k >= 0 (0 ** 0 is 1, as in Python)
RECURSIVE RPowNat(_, _)
RPowNat(x, k) == IF k = 0 THEN One ELSE RMul(x, RPowNat(x, k - 1))

Ok(v) == [exc |-> "none", val |-> v]

Raise(e) == [exc |-> e, val |-> Zero]

\* Python's true division of floats: ZeroDivisionError on a zero divisor
PyDiv(x, y) == IF y = Zero THEN Raise("ZeroDivisionError") ELSE Ok(RDiv(x, y))

\* Python's float ** int: a negative power of zero raises ZeroDivisionError
PyPow(x, k) ==
    IF k >= 0 THEN Ok(RPowNat(x, k))
    ELSE IF x = Zero THEN Raise("ZeroDivisionError")
    ELSE Ok(RDiv(One, RPowNat(x, -k)))

\* sum(list), added left to right
RECURSIVE Sum(_)
Sum(s) == IF s = <<>> THEN Zero ELSE RAdd(Sum(SubSeq(s, 1, Len(s) - 1)), s[Len(s)])

-----------------------------------------------------------------------------
(* Market data: a dict whose keys may be missing *)

Some(v) == [has |-> TRUE, val |-> v]

Absent == [has |-> FALSE, val |-> Zero]

\* dict.get(key, default)
Get(field, default) == IF field.has THEN field.val ELSE default

-----------------------------------------------------------------------------
(* The valuation functions *)

\* calculate_wacc without the tax shield on the cost of debt
WaccNoTaxShield(equity_value, debt_value, cost_of_equity, cost_of_debt, tax_rate) ==
    LET total_value == RAdd(equity_value, debt_value)
        we == PyDiv(equity_value, total_value)
        wd == PyDiv(debt_value, total_value)
    IN  IF we.exc # "none" THEN Raise(we.exc)
        ELSE Ok(RAdd(RMul(we.val, cost_of_equity), RMul(wd.val, cost_of_debt)))

\* def calculate_wacc(equity_value, debt_value, cost_of_equity, cost_of_debt, tax_rate)
calculate_wacc(equity_value, debt_value, cost_of_equity, cost_of_debt, tax_rate) ==
    LET total_value == RAdd(equity_value, debt_value)
        we == PyDiv(equity_value, total_value)
        wd == PyDiv(debt_value, total_value)
    IN  IF we.exc # "none" THEN Raise(we.exc)
        ELSE Ok(RAdd(RMul(we.val, cost_of_equity),
                     RMul(RMul(wd.val, cost_of_debt), RSub(One, tax_rate))))

\* the discount exponent taken as i instead of i + 1
DiscountFromZero(fcf, rate, i) == PyDiv(fcf, PyPow(RAdd(One, rate), i).val)

\* fcf / ((1 + wacc) ** (i + 1)), the value appended at loop index i
Discount(fcf, rate, i) == PyDiv(fcf, PyPow(RAdd(One, rate), i + 1).val)

\* fcf = fcf * (1 + growth_rate)
Grow(fcf, growth_rate) == RMul(fcf, RAdd(One, growth_rate))

\* the list assigned instead of appended to
LoopBodyOverwrite(st, growth_rate, rate, i) ==
    LET d == PyDiv(st.fcf, PyPow(RAdd(One, rate), i + 1).val)
    IN  IF d.exc # "none"
        THEN [st EXCEPT !.exc = d.exc]
        ELSE [st EXCEPT !.discounted_fcf = <<d.val>>,
                        !.fcf = RMul(@, RAdd(One, growth_rate))]

\* one iteration of the for loop of calculate_dcf, on the locals
\* st = [fcf, discounted_fcf, exc]
LoopBody(st, growth_rate, rate, i) ==
    LET d == Discount(st.fcf, rate, i)
    IN  IF d.exc # "none"
        THEN [st EXCEPT !.exc = d.exc]
        ELSE [st EXCEPT !.discounted_fcf = Append(@, d.val),
                        !.fcf = Grow(@, growth_rate)]

\* for i in range(num_years): the iterations from index i on
RECURSIVE Loop(_, _, _, _, _)
Loop(st, growth_rate, rate, i, num_years) ==
    IF i >= num_years \/ st.exc # "none" THEN st
    ELSE Loop(LoopBody(st, growth_rate, rate, i), growth_rate, rate, i + 1, num_years)

\* the terminal value without the one more period of terminal growth
TerminalValueNoGrowth(fcf, terminal_growth_rate, rate) ==
    PyDiv(fcf, RSub(rate, terminal_growth_rate))

\* terminal_value = (fcf * (1 + terminal_growth_rate)) / (wacc - terminal_growth_rate)
TerminalValue(fcf, terminal_growth_rate, rate) ==
    PyDiv(RMul(fcf, RAdd(One, terminal_growth_rate)), RSub(rate, terminal_growth_rate))

\* the terminal value discounted one period too many
DiscountedTerminalValueLate(terminal_value, rate, num_years) ==
    LET p == PyPow(RAdd(One, rate), num_years + 1)
    IN  IF p.exc # "none" THEN Raise(p.exc) ELSE PyDiv(terminal_value, p.val)

\* discounted_terminal_value = terminal_value / ((1 + wacc) ** num_years)
DiscountedTerminalValue(terminal_value, rate, num_years) ==
    LET p == PyPow(RAdd(One, rate), num_years)
    IN  IF p.exc # "none" THEN Raise(p.exc) ELSE PyDiv(terminal_value, p.val)

\* total_value = sum(discounted_fcf) + discounted_terminal_value
TotalValue(discounted_fcf, discounted_terminal_value) ==
    RAdd(Sum(discounted_fcf), discounted_terminal_value)

\* what a call of calculate_dcf has not computed yet
NoResult == [exc |-> "none", total_value |-> Zero, discounted_fcf |-> <<>>,
             terminal_value |-> Zero]

\* def calculate_dcf(fcf, growth_rate, wacc, terminal_growth_rate, num_years)
calculate_dcf(fcf, growth_rate, rate, terminal_growth_rate, num_years) ==
    LET st  == Loop([fcf |-> fcf, discounted_fcf |-> <<>>, exc |-> "none"],
                    growth_rate, rate, 0, num_years)
        tv  == TerminalValue(st.fcf, terminal_growth_rate, rate)
        dtv == DiscountedTerminalValue(tv.val, rate, num_years)
    IN  IF st.exc # "none" THEN [NoResult EXCEPT !.exc = st.exc]
        ELSE IF tv.exc # "none" THEN [NoResult EXCEPT !.exc = tv.exc]
        ELSE IF dtv.exc # "none" THEN [NoResult EXCEPT !.exc = dtv.exc]
        ELSE [exc |-> "none",
              total_value |-> TotalValue(st.discounted_fcf, dtv.val),
              discounted_fcf |-> st.discounted_fcf,
              terminal_value |-> tv.val]

\* def calculate_ps_valuation(sales, industry_ps_ratio)
calculate_ps_valuation(sales, industry_ps_ratio) == RMul(sales, industry_ps_ratio)

\* the predicate without the None tests: a missing figure counts as negative
NegativeOrMissing(pe_ratio, fcf) ==
    RLt(Get(pe_ratio, Rat(-1, 1)), Zero) /\ RLt(Get(fcf, Rat(-1, 1)), Zero)

\* negative_pe_and_fcf = (pe_ratio is not None and pe_ratio < 0)
\*                       and (fcf is not None and fcf < 0)
negative_pe_and_fcf(pe_ratio, fcf) ==
    (pe_ratio.has /\ RLt(pe_ratio.val, Zero)) /\ (fcf.has /\ RLt(fcf.val, Zero))

-----------------------------------------------------------------------------
(* Inputs of a run of the script *)

Opt(S) == {Absent} \cup {Some(v) : v \in S}

\* info = stock.info: the market-data fields the script reads
InfoStates ==
    [trailingPE        : Opt({Rat(-1, 1), Zero, One}),
     freeCashflow      : Opt({Rat(-1, 1), Zero, One}),
     totalRevenue      : Opt({Rat(2, 1)}),
     marketCap         : Opt({One}),
     totalDebt         : Opt({One}),
     sharesOutstanding : Opt({Zero, Rat(2, 1)}),
     targetMeanPrice   : Opt({One})]

NoInfo ==
    [trailingPE |-> Absent, freeCashflow |-> Absent, totalRevenue |-> Absent,
     marketCap |-> Absent, totalDebt |-> Absent, sharesOutstanding |-> Absent,
     targetMeanPrice |-> Absent]

\* what the user may type into a money widget, besides leaving its default
MoneyInputs == {Zero, One}

\* what the user may type into the percent widgets
GrowthInputs == {0, 100}

TerminalGrowthInputs == {0, 50}

TaxInputs == {0, 50}

CostInputs == {0, 100}

YearInputs == -1 .. MaxYears

PsRatioInputs == {Rat(3, 2), Rat(2, 1)}

\* st.number_input(...) / 100
Percent(p) == Rat(p, 100)

NoInputs ==
    [sales |-> Zero, industry_ps_ratio |-> Zero, initial_fcf |-> Zero,
     growth_rate |-> Zero, terminal_growth_rate |-> Zero, num_years |-> 0,
     tax_rate |-> Zero, equity_value |-> Zero, debt_value |-> Zero,
     cost_of_equity |-> Zero, cost_of_debt |-> Zero]

\* the value= arguments of the widgets that are pre-filled from market data
NoWidget == [initial_fcf |-> Absent, equity_value |-> Absent, debt_value |-> Absent]

NoOutput ==
    [ps_valuation |-> Absent, total_value |-> Absent, discounted_fcf |-> <<>>,
     terminal_value |-> Absent, fair_value_per_share |-> Absent]

\* the frames of the two functions when they are called on their own
IdleWacc == [pc |-> "idle", equity_value |-> Zero, debt_value |-> Zero,
             cost_of_equity |-> Zero, cost_of_debt |-> Zero, tax_rate |-> Zero,
             ret |-> Ok(Zero)]

IdleDcf == [pc |-> "idle", fcf0 |-> Zero, growth_rate |-> Zero, wacc |-> Zero,
            terminal_growth_rate |-> Zero, num_years |-> 0, i |-> 0,
            fcf |-> Zero, discounted_fcf |-> <<>>, terminal_value |-> Zero,
            discounted_terminal_value |-> Zero, total_value |-> Zero,
            exc |-> "none"]

-----------------------------------------------------------------------------
(* A run of the script *)

Init ==
    /\ info = NoInfo
    /\ pc = "start"
    /\ path = "none"
    /\ calls = <<>>
    /\ widget = NoWidget
    /\ inp = NoInputs
    /\ wacc = Absent
    /\ out = NoOutput
    /\ exc = "none"
    /\ w = IdleWacc
    /\ dcf = IdleDcf

\* stock = get_stock_data(ticker); info = stock.info; the key-metrics table
GetStockData ==
    /\ pc = "start"
    /\ info' \in InfoStates
    /\ pc' = "select"
    /\ UNCHANGED <<path, calls, widget, inp, wacc, out, exc, w, dcf>>

\* pe_ratio, fcf, negative_pe_and_fcf and the if on it
SelectPath ==
    /\ pc = "select"
    /\ path' = IF negative_pe_and_fcf(info.trailingPE, info.freeCashflow)
               THEN "ps" ELSE "dcf"
    /\ pc' = IF path' = "ps" THEN "ps" ELSE "hist"
    /\ UNCHANGED <<info, calls, widget, inp, wacc, out, exc, w, dcf>>

\* the P/S branch: sales, the ratio widget, the valuation and the per-share value
PsValuation ==
    /\ pc = "ps"
    /\ \E ratio \in PsRatioInputs :
         LET sales == Get(info.totalRevenue, Zero)
             ps_valuation == calculate_ps_valuation(sales, ratio)
             share == PyDiv(ps_valuation, Get(info.sharesOutstanding, One))
         IN  /\ inp' = [inp EXCEPT !.sales = sales, !.industry_ps_ratio = ratio]
             /\ calls' = Append(calls, "calculate_ps_valuation")
             /\ IF share.exc # "none"
                THEN /\ out' = [out EXCEPT !.ps_valuation = Some(ps_valuation)]
                     /\ exc' = share.exc
                     /\ pc' = "raised"
                ELSE /\ out' = [out EXCEPT !.ps_valuation = Some(ps_valuation),
                                           !.fair_value_per_share = Some(share.val)]
                     /\ exc' = exc
                     /\ pc' = "done"
    /\ UNCHANGED <<info, path, widget, wacc, w, dcf>>

\* the else branch up to the chart: formatting targetMeanPrice with :.2f raises
\* ValueError when the key is missing (the default is the string 'N/A')
HistoricalMetrics ==
    /\ pc = "hist"
    /\ IF info.targetMeanPrice.has
       THEN pc' = "assume" /\ exc' = exc
       ELSE pc' = "raised" /\ exc' = "ValueError"
    /\ UNCHANGED <<info, path, calls, widget, inp, wacc, out, w, dcf>>

\* the nine number_input widgets and the conversions after them
DcfAssumptions ==
    /\ pc = "assume"
    /\ widget' = [initial_fcf  |-> Some(Get(info.freeCashflow, Zero)),
                  equity_value |-> Some(Get(info.marketCap, Zero)),
                  debt_value   |-> Some(Get(info.totalDebt, Zero))]
    /\ \E f \in {widget'.initial_fcf.val} \cup MoneyInputs,
          e \in {widget'.equity_value.val} \cup MoneyInputs,
          d \in {widget'.debt_value.val} \cup MoneyInputs,
          g \in GrowthInputs, tg \in TerminalGrowthInputs, n \in YearInputs,
          t \in TaxInputs, re \in CostInputs, rd \in CostInputs :
         inp' = [inp EXCEPT !.initial_fcf = f,
                            !.growth_rate = Percent(g),
                            !.terminal_growth_rate = Percent(tg),
                            !.num_years = n,
                            !.tax_rate = Percent(t),
                            !.equity_value = e,
                            !.debt_value = d,
                            !.cost_of_equity = Percent(re),
                            !.cost_of_debt = Percent(rd)]
    /\ pc' = "wacc"
    /\ UNCHANGED <<info, path, calls, wacc, out, exc, w, dcf>>

\* wacc = calculate_wacc(...)
CallWacc ==
    /\ pc = "wacc"
    /\ calls' = Append(calls, "calculate_wacc")
    /\ LET r == calculate_wacc(inp.equity_value, inp.debt_value, inp.cost_of_equity,
                               inp.cost_of_debt, inp.tax_rate)
       IN  IF r.exc # "none"
           THEN wacc' = wacc /\ exc' = r.exc /\ pc' = "raised"
           ELSE wacc' = Some(r.val) /\ exc' = exc /\ pc' = "dcf"
    /\ UNCHANGED <<info, path, widget, inp, out, w, dcf>>

\* total_value, discounted_fcf, terminal_value = calculate_dcf(...)
CallDcf ==
    /\ pc = "dcf"
    /\ calls' = Append(calls, "calculate_dcf")
    /\ LET r == calculate_dcf(inp.initial_fcf, inp.growth_rate, wacc.val,
                              inp.terminal_growth_rate, inp.num_years)
       IN  IF r.exc # "none"
           THEN out' = out /\ exc' = r.exc /\ pc' = "raised"
           ELSE /\ out' = [out EXCEPT !.total_value = Some(r.total_value),
                                      !.discounted_fcf = r.discounted_fcf,
                                      !.terminal_value = Some(r.terminal_value)]
                /\ exc' = exc
                /\ pc' = "present"
    /\ UNCHANGED <<info, path, widget, inp, wacc, w, dcf>>

\* the fair value and the per-share value are written (the quarterly series, the
\* rounding for display and the chart carry no state of the valuation)
Present ==
    /\ pc = "present"
    /\ LET share == PyDiv(out.total_value.val, Get(info.sharesOutstanding, One))
       IN  IF share.exc # "none"
           THEN out' = out /\ exc' = share.exc /\ pc' = "raised"
           ELSE /\ out' = [out EXCEPT !.fair_value_per_share = Some(share.val)]
                /\ exc' = exc
                /\ pc' = "done"
    /\ UNCHANGED <<info, path, calls, widget, inp, wacc, w, dcf>>

\* Streamlit runs the script again from the top on the next interaction
Rerun ==
    /\ pc \in {"done", "raised"}
    /\ info' = NoInfo
    /\ pc' = "start"
    /\ path' = "none"
    /\ calls' = <<>>
    /\ widget' = NoWidget
    /\ inp' = NoInputs
    /\ wacc' = Absent
    /\ out' = NoOutput
    /\ exc' = "none"
    /\ UNCHANGED <<w, dcf>>

Next ==
    \/ GetStockData
    \/ SelectPath
    \/ PsValuation
    \/ HistoricalMetrics
    \/ DcfAssumptions
    \/ CallWacc
    \/ CallDcf
    \/ Present
    \/ Rerun

Spec == Init /\ [][Next]_vars

-----------------------------------------------------------------------------
(* calculate_wacc called on its own, on every capital structure of a bounded set *)

\* the largest equity or debt value a direct call is given
MaxMoney == 4

\* the largest horizon a direct call of calculate_dcf is given
MaxHorizon == 3

WaccMoney == {Rat(m, 1) : m \in -1 .. MaxMoney}

WaccCosts == {Zero, Rat(5, 100), Rat(8, 100), Rat(1, 2)}

WaccTaxRates == {Rat(-1, 2), Zero, Rat(21, 100), One, Rat(2, 1)}

InitWacc ==
    /\ info = NoInfo /\ pc = "start" /\ path = "none" /\ calls = <<>>
    /\ widget = NoWidget /\ inp = NoInputs /\ wacc = Absent /\ out = NoOutput
    /\ exc = "none"
    /\ dcf = IdleDcf
    /\ \E e \in WaccMoney, d \in WaccMoney, re \in WaccCosts, rd \in WaccCosts,
          t \in WaccTaxRates :
         w = [pc |-> "call", equity_value |-> e, debt_value |-> d,
              cost_of_equity |-> re, cost_of_debt |-> rd, tax_rate |-> t,
              ret |-> Ok(Zero)]

\* the body of calculate_wacc, from the call to its return or its exception
WaccCall ==
    /\ w.pc = "call"
    /\ LET r == calculate_wacc(w.equity_value, w.debt_value, w.cost_of_equity,
                               w.cost_of_debt, w.tax_rate)
       IN  w' = [w EXCEPT !.ret = r,
                          !.pc = IF r.exc = "none" THEN "return" ELSE "raised"]
    /\ UNCHANGED <<runVars, dcf>>

NextWacc == WaccCall

SpecWacc == InitWacc /\ [][NextWacc]_vars

-----------------------------------------------------------------------------
(* calculate_dcf called on its own, one statement at a time *)

DcfCashFlows == {Rat(-1, 1), Zero, One, Rat(100, 1)}

DcfGrowthRates == {Rat(-1, 1), Rat(-1, 2), Zero, Rat(1, 2)}

DcfDiscountRates == {Rat(-2, 1), Rat(-1, 1), Rat(-1, 2), Zero, Rat(1, 4), Rat(1, 2)}

DcfTerminalRates == {Rat(-1, 1), Rat(-1, 2), Zero, Rat(1, 4)}

InitDcf ==
    /\ info = NoInfo /\ pc = "start" /\ path = "none" /\ calls = <<>>
    /\ widget = NoWidget /\ inp = NoInputs /\ wacc = Absent /\ out = NoOutput
    /\ exc = "none"
    /\ w = IdleWacc
    /\ \E f \in DcfCashFlows, g \in DcfGrowthRates, r \in DcfDiscountRates,
          tg \in DcfTerminalRates, n \in -1 .. MaxHorizon :
         dcf = [IdleDcf EXCEPT !.pc = "loop", !.fcf0 = f, !.fcf = f,
                               !.growth_rate = g, !.wacc = r,
                               !.terminal_growth_rate = tg, !.num_years = n]

\* one iteration of: for i in range(num_years)
DcfLoop ==
    /\ dcf.pc = "loop"
    /\ dcf.i < dcf.num_years
    /\ LET st == LoopBody([fcf |-> dcf.fcf, discounted_fcf |-> dcf.discounted_fcf,
                           exc |-> "none"],
                          dcf.growth_rate, dcf.wacc, dcf.i)
       IN  IF st.exc # "none"
           THEN dcf' = [dcf EXCEPT !.exc = st.exc, !.pc = "raised"]
           ELSE dcf' = [dcf EXCEPT !.fcf = st.fcf,
                                   !.discounted_fcf = st.discounted_fcf,
                                   !.i = @ + 1]
    /\ UNCHANGED <<runVars, w>>

\* the loop is over: terminal_value = ...
DcfTerminal ==
    /\ dcf.pc = "loop"
    /\ dcf.i >= dcf.num_years
    /\ LET tv == TerminalValue(dcf.fcf, dcf.terminal_growth_rate, dcf.wacc)
       IN  IF tv.exc # "none"
           THEN dcf' = [dcf EXCEPT !.exc = tv.exc, !.pc = "raised"]
           ELSE dcf' = [dcf EXCEPT !.terminal_value = tv.val, !.pc = "discount"]
    /\ UNCHANGED <<runVars, w>>

\* discounted_terminal_value = ...
DcfDiscount ==
    /\ dcf.pc = "discount"
    /\ LET dtv == DiscountedTerminalValue(dcf.terminal_value, dcf.wacc, dcf.num_years)
       IN  IF dtv.exc # "none"
           THEN dcf' = [dcf EXCEPT !.exc = dtv.exc, !.pc = "raised"]
           ELSE dcf' = [dcf EXCEPT !.discounted_terminal_value = dtv.val,
                                   !.pc = "total"]
    /\ UNCHANGED <<runVars, w>>

\* total_value = ...; return total_value, discounted_fcf, terminal_value
DcfReturn ==
    /\ dcf.pc = "total"
    /\ dcf' = [dcf EXCEPT !.total_value = TotalValue(dcf.discounted_fcf,
                                                     dcf.discounted_terminal_value),
                          !.pc = "return"]
    /\ UNCHANGED <<runVars, w>>

NextDcf ==
    \/ DcfLoop
    \/ DcfTerminal
    \/ DcfDiscount
    \/ DcfReturn

SpecDcf == InitDcf /\ [][NextDcf]_vars

-----------------------------------------------------------------------------
(* Path selection and the error handling of a run (specification Spec) *)

Finished == pc \in {"done", "raised"}

Called(f) == \E k \in 1 .. Len(calls) : calls[k] = f

\* both figures are present and both are strictly negative
BothNegative ==
    /\ info.trailingPE.has /\ info.trailingPE.val[1] < 0
    /\ info.freeCashflow.has /\ info.freeCashflow.val[1] < 0

\* C1: the P/S valuation is invoked if and only if trailing P/E and free cash flow
\* are both present and both strictly negative; in every other case (a value
\* absent, zero or positive) the run takes the primary branch, where calculate_wacc
\* comes first and calculate_dcf after it; no run executes both paths, and a run
\* that completes has executed exactly one of them.
C1_PathSelection ==
    /\ calls \in {<<>>, <<"calculate_ps_valuation">>, <<"calculate_wacc">>,
                  <<"calculate_wacc", "calculate_dcf">>}
    /\ path # "none" => (path = "ps" <=> BothNegative)
    /\ Called("calculate_ps_valuation") => path = "ps"
    /\ Called("calculate_wacc") => path = "dcf"
    /\ Finished => (Called("calculate_ps_valuation") <=> BothNegative)
    /\ pc = "done" =>
          calls = IF BothNegative THEN <<"calculate_ps_valuation">>
                  ELSE <<"calculate_wacc", "calculate_dcf">>

\* a completed primary run although the free cash flow is negative: the P/E is absent
C1_Witness ==
    /\ pc = "done"
    /\ path = "dcf"
    /\ ~info.trailingPE.has
    /\ info.freeCashflow.has /\ info.freeCashflow.val[1] < 0
    /\ calls = <<"calculate_wacc", "calculate_dcf">>

\* C2: a run whose discount rate (the WACC) is equal to or below the terminal growth
\* rate never returns a valuation from calculate_dcf.
C2_NoValuationUnlessRateExceedsGrowth ==
    (wacc.has /\ RLe(wacc.val, inp.terminal_growth_rate)) => ~out.total_value.has

\* C3: an absent market-data field is never replaced by a number: no widget is
\* pre-filled from an absent field, and no valuation or per-share figure is computed
\* from an absent revenue or share count.
C3_MissingDataStaysMissing ==
    /\ widget.initial_fcf.has => info.freeCashflow.has
    /\ widget.equity_value.has => info.marketCap.has
    /\ widget.debt_value.has => info.totalDebt.has
    /\ out.ps_valuation.has => info.totalRevenue.has
    /\ out.fair_value_per_share.has => info.sharesOutstanding.has

\* C4: a run with a zero or negative horizon never returns a valuation from
\* calculate_dcf.
C4_NoValuationForNonPositiveHorizon ==
    (Called("calculate_dcf") /\ inp.num_years <= 0) => ~out.total_value.has

\* C5: every run that reaches calculate_wacc has a non-zero total capitalization,
\* or the zero total is surfaced as the typed error 'invalid valuation input'.
C5_PositiveCapitalization ==
    Called("calculate_wacc") =>
        \/ RAdd(inp.equity_value, inp.debt_value) # Zero
        \/ exc = "invalid valuation input"

-----------------------------------------------------------------------------
(* calculate_wacc (specification SpecWacc) *)

WaccFinished == w.pc \in {"return", "raised"}

\* costOfDebt * (1 - taxRate)
AfterTaxCostOfDebt == RMul(w.cost_of_debt, RSub(One, w.tax_rate))

\* E + D > 0, E >= 0, D >= 0 and both costs non-negative
WaccValid ==
    /\ RLt(Zero, RAdd(w.equity_value, w.debt_value))
    /\ RLe(Zero, w.equity_value) /\ RLe(Zero, w.debt_value)
    /\ RLe(Zero, w.cost_of_equity) /\ RLe(Zero, w.cost_of_debt)

WaccUpperAndEnds ==
    /\ w.ret.exc = "none"
    /\ RLe(w.ret.val, RMax(w.cost_of_equity, AfterTaxCostOfDebt))
    /\ w.debt_value = Zero => w.ret.val = w.cost_of_equity
    /\ w.equity_value = Zero => w.ret.val = AfterTaxCostOfDebt

\* C6 as stated: for every valid capital structure and any tax rate,
\* 0 <= wacc <= max(costOfEquity, costOfDebt*(1 - taxRate)), wacc = costOfEquity
\* when D = 0 and wacc = costOfDebt*(1 - taxRate) when E = 0.
C6_WaccBoundsAnyTaxRate ==
    (WaccFinished /\ WaccValid) => (WaccUpperAndEnds /\ RLe(Zero, w.ret.val))

\* C6, amended: for every valid capital structure, calculate_wacc returns
\* wacc <= max(costOfEquity, costOfDebt*(1 - taxRate)) with wacc = costOfEquity
\* when D = 0 and wacc = costOfDebt*(1 - taxRate) when E = 0, for any tax rate;
\* 0 <= wacc holds when the tax rate is at most 1.
C6_WaccBounds ==
    (WaccFinished /\ WaccValid) =>
        /\ WaccUpperAndEnds
        /\ RLe(w.tax_rate, One) => RLe(Zero, w.ret.val)

\* E = 4, D = 1, Re = 0.08, Rd = 0.05, Tc = 0.21 gives 0.0719 (the weights of
\* E = 800, D = 200)
C6_Witness ==
    /\ w.pc = "return"
    /\ w.equity_value = Rat(4, 1) /\ w.debt_value = One
    /\ w.cost_of_equity = Rat(8, 100) /\ w.cost_of_debt = Rat(5, 100)
    /\ w.tax_rate = Rat(21, 100)
    /\ w.ret.val = Rat(719, 10000)

-----------------------------------------------------------------------------
(* calculate_dcf (specification SpecDcf) *)

MinusOne == Rat(-1, 1)

\* discountRate > terminalGrowthRate > -1, growthRate > -1 and horizonYears >= 1
DcfValid ==
    /\ RLt(dcf.terminal_growth_rate, dcf.wacc)
    /\ RLt(MinusOne, dcf.terminal_growth_rate)
    /\ RLt(MinusOne, dcf.growth_rate)
    /\ dcf.num_years >= 1

\* C7: a call with discountRate > terminalGrowthRate > -1, growthRate > -1 and
\* horizonYears >= 1 never raises, the list it returns has exactly horizonYears
\* entries, and every entry is strictly positive when initialFcf > 0 and
\* discountRate > -1.
C7_LengthAndSign ==
    DcfValid =>
        /\ dcf.pc # "raised"
        /\ dcf.pc = "return" =>
              /\ Len(dcf.discounted_fcf) = dcf.num_years
              /\ (RLt(Zero, dcf.fcf0) /\ RLt(MinusOne, dcf.wacc)) =>
                    \A k \in 1 .. Len(dcf.discounted_fcf) :
                        RLt(Zero, dcf.discounted_fcf[k])

C7_Witness ==
    /\ dcf.pc = "return"
    /\ DcfValid
    /\ dcf.num_years = MaxHorizon
    /\ dcf.fcf0 = Rat(100, 1)
    /\ dcf.growth_rate = Rat(-1, 2)
    /\ Len(dcf.discounted_fcf) = MaxHorizon

\* initialFcf * (1 + growthRate)^k
Compounded(k) == RMul(dcf.fcf0, RPowNat(RAdd(One, dcf.growth_rate), k))

\* (1 + discountRate)^k
DiscountFactor(k) == RPowNat(RAdd(One, dcf.wacc), k)

\* C8: entry i-1 of the returned list is initialFcf*(1+growthRate)^(i-1) /
\* (1+discountRate)^i for every period i in 1..horizonYears, so the first entry is
\* the initial FCF discounted once with no growth; after the loop the loop variable
\* is initialFcf*(1+growthRate)^horizonYears.
C8_PerPeriodDiscounting ==
    (dcf.pc \in {"discount", "total", "return"} /\ dcf.num_years >= 0) =>
        /\ Len(dcf.discounted_fcf) = dcf.num_years
        /\ \A k \in 1 .. Len(dcf.discounted_fcf) :
              dcf.discounted_fcf[k] = RDiv(Compounded(k - 1), DiscountFactor(k))
        /\ dcf.num_years >= 1 =>
              dcf.discounted_fcf[1] = RDiv(dcf.fcf0, RAdd(One, dcf.wacc))
        /\ dcf.fcf = Compounded(dcf.num_years)

C8_Witness ==
    /\ dcf.pc = "return"
    /\ dcf.num_years = MaxHorizon
    /\ dcf.fcf0 = Rat(100, 1)
    /\ dcf.growth_rate = Rat(1, 2)
    /\ dcf.wacc = Rat(1, 4)
    /\ dcf.discounted_fcf[2] = Rat(96, 1)

\* initialFcf*(1+growthRate)^horizonYears*(1+terminalGrowthRate) /
\* (discountRate - terminalGrowthRate)
TerminalFormula ==
    RDiv(RMul(Compounded(dcf.num_years), RAdd(One, dcf.terminal_growth_rate)),
         RSub(dcf.wacc, dcf.terminal_growth_rate))

\* the Gordon-growth value at the end of the horizon: the last explicitly
\* discounted cash flow, grown once at the terminal rate, as a perpetuity
GordonAtHorizon ==
    RDiv(RMul(Compounded(dcf.num_years - 1), RAdd(One, dcf.terminal_growth_rate)),
         RSub(dcf.wacc, dcf.terminal_growth_rate))

\* the perpetuity value of the post-horizon cash flow itself
PerpetuityOfNextCashFlow ==
    RDiv(Compounded(dcf.num_years), RSub(dcf.wacc, dcf.terminal_growth_rate))

\* C9 as stated: the returned terminal value equals the formula and is the standard
\* Gordon-growth terminal value anchored at the end of the explicit horizon (the
\* perpetuity value of the cash flow of the period after the last discounted one).
C9_TerminalIsStandardGordon ==
    (dcf.pc = "return" /\ dcf.num_years >= 1) =>
        /\ dcf.terminal_value = TerminalFormula
        /\ \/ dcf.terminal_value = GordonAtHorizon
           \/ dcf.terminal_value = PerpetuityOfNextCashFlow

\* C9, amended: the returned terminal value is undiscounted and equals
\* initialFcf*(1+growthRate)^horizonYears*(1+terminalGrowthRate) /
\* (discountRate - terminalGrowthRate); this is (1+growthRate) times the standard
\* Gordon-growth value at the end of the horizon, and (1+terminalGrowthRate) times
\* the perpetuity value of the post-horizon cash flow.
C9_TerminalValue ==
    (dcf.pc = "return" /\ dcf.num_years >= 1) =>
        /\ dcf.terminal_value = TerminalFormula
        /\ dcf.terminal_value = RMul(RAdd(One, dcf.growth_rate), GordonAtHorizon)
        /\ dcf.terminal_value =
              RMul(RAdd(One, dcf.terminal_growth_rate), PerpetuityOfNextCashFlow)

C9_Witness ==
    /\ dcf.pc = "return"
    /\ dcf.num_years = 2
    /\ dcf.fcf0 = Rat(100, 1)
    /\ dcf.growth_rate = Rat(1, 2)
    /\ dcf.wacc = Rat(1, 2)
    /\ dcf.terminal_growth_rate = Rat(1, 4)
    /\ dcf.terminal_value = Rat(1125, 1)
    /\ dcf.terminal_value # dcf.discounted_terminal_value

\* C10: the returned total is the sum of the returned discounted cash flows plus
\* the returned terminal value divided by (1+discountRate)^horizonYears; with
\* horizonYears = 1 it is initialFcf/(1+discountRate) plus the terminal value
\* discounted by one period.
C10_TotalPresentValue ==
    (dcf.pc = "return" /\ dcf.num_years >= 0) =>
        /\ dcf.total_value =
              RAdd(Sum(dcf.discounted_fcf),
                   RDiv(dcf.terminal_value, DiscountFactor(dcf.num_years)))
        /\ dcf.num_years = 1 =>
              /\ Len(dcf.discounted_fcf) = 1
              /\ dcf.total_value =
                    RAdd(RDiv(dcf.fcf0, RAdd(One, dcf.wacc)),
                         RDiv(dcf.terminal_value, RAdd(One, dcf.wacc)))

C10_Witness ==
    /\ dcf.pc = "return"
    /\ dcf.num_years = 1
    /\ dcf.fcf0 = Rat(100, 1)
    /\ dcf.growth_rate = Rat(1, 2)
    /\ dcf.wacc = Rat(1, 4)
    /\ dcf.terminal_growth_rate = Zero
    /\ dcf.total_value = Rat(560, 1)

====
